---- MODULE Spec2Model ----
(***************************************************************************)
(* Model of the experiment orchestration core of stdnn_platform            *)
(* (src/stdnn/experiments/experiment.py): ExperimentConfig,                *)
(* ExperimentConfigManager, Experiment and ExperimentManager.              *)
(*                                                                         *)
(* Python dictionaries are objects of a heap (a sequence of dictionaries,  *)
(* the index being the object's identity), so that a shallow copy          *)
(* dict(d) shares the nested dictionaries of d, as it does in Python.      *)
(* Hyperparameter values are floats of the form n * 1e-7, held as the      *)
(* integer n; round(value, 6) is computed on that integer.                 *)
(***************************************************************************)
EXTENDS Integers, Sequences, FiniteSets, TLC

\* ------------------------------------------------------------------ bounds

\* largest number of grid steps of one hyperparameter
MaxSteps == 4

\* largest configured number of repeat runs
MaxRuns == 3

\* largest number of get_run_results calls, and of getter calls, of a client
MaxGets == 2

\* largest number of combine() calls on one RunResultSet
MaxCombines == 2

\* ------------------------------------------------------------ input domains

\* names a hyperparameter of the configuration space may have
ParamNames == {"lr", "wd"}

\* the value of a missing meta "config" entry (Python None)
None == "None"

\* meta "config" values: no binding, a stage of the template, a stage absent from it
ConfigKeys == {None, "model", "train", "evaluate"}

\* lower bound of every float hyperparameter (0.1, in units of 1e-7)
Lowers == {1000000}

\* upper - lower of a float hyperparameter (1.2e-6 and 1.2e-5, in units of 1e-7)
Widths == {12, 120}

\* configured repeat counts, the invalid ones (below 1) included
RunCounts == (0 - 1)..MaxRuns

\* ------------------------------------------------------------------- heap

Ref(o) == [t |-> "ref", v |-> o]
Num(n) == [t |-> "num", v |-> n]

\* dict(d): a new dictionary with the keys of d bound to the same values
\* (nested dictionaries are shared, not copied)
ShallowCopy(h, o) == Append(h, h[o])

\* identity of the object the last ShallowCopy created
Newest(h) == Len(h)

\* the stages of a pipeline configuration, the ones the getters of
\* ExperimentConfig read
Stages == <<"model", "preprocess", "train", "validate", "test">>

\* the pipeline template the caller passes in (objects 1..16: the template, its
\* five stages, their meta dictionaries, their params dictionaries) and
\* ExperimentConfigManager._raw_pipeline_config, its shallow copy (object 17)
InitialHeap ==
    ShallowCopy(
      << [model |-> Ref(2), preprocess |-> Ref(3), train |-> Ref(4),
          validate |-> Ref(5), test |-> Ref(6)] >>
      \o [i \in 1..5 |-> [meta |-> Ref(6 + i), params |-> Ref(11 + i)]]
      \o [i \in 1..5 |-> IF i = 1 THEN [type |-> Num(1), manager |-> Num(2)]
                                   ELSE [type |-> Num(0), manager |-> Num(0)]]
      \o [i \in 1..5 |-> [lr |-> Num(0), wd |-> Num(0)]], 1)

\* the object ExperimentConfigManager._raw_pipeline_config names
RawPipelineConfig == Newest(InitialHeap)

\* the nested value of an object: its dictionary with every reference replaced
\* by the nested value of the object referred to
RECURSIVE Deref(_, _)
Deref(h, o) ==
    [k \in DOMAIN h[o] |->
        IF h[o][k].t = "ref" THEN [t |-> "dict", v |-> Deref(h, h[o][k].v)]
        ELSE [t |-> "num", v |-> h[o][k].v]]

\* dictionary_update_deep(dictionary, key, value): binds key to value in
\* the dictionary and in every dictionary nested in it that has the key
RECURSIVE DictionaryUpdateDeep(_, _, _, _)
RECURSIVE UpdateNested(_, _, _, _, _)
DictionaryUpdateDeep(h, o, key, value) ==
    LET h1 == IF key \in DOMAIN h[o] THEN [h EXCEPT ![o][key] = Num(value)] ELSE h
    IN  UpdateNested(h1, o, {k \in DOMAIN h1[o] : h1[o][k].t = "ref"}, key, value)
UpdateNested(h, o, ks, key, value) ==
    IF ks = {} THEN h
    ELSE LET k == CHOOSE x \in ks : TRUE
         IN  UpdateNested(DictionaryUpdateDeep(h, h[o][k].v, key, value),
                          o, ks \ {k}, key, value)

\* ------------------------------------------------- configuration space, grid

\* the hyperparameters a configuration space may declare: a float range
\* [lower, upper] and the meta "config" value that binds it to a stage
Hyperparameters ==
    [name : ParamNames, lower : Lowers, width : Widths, config : ConfigKeys]

\* the configuration spaces: one or two hyperparameters with distinct names,
\* in declaration order
ConfigSpaces ==
    {<<a>> : a \in Hyperparameters}
    \cup {s \in {<<a, b>> : a \in Hyperparameters, b \in Hyperparameters} :
              s[1].name # s[2].name}

\* config_space.get_hyperparameter(param)
GetHyperparameter(cs, param) ==
    cs[CHOOSE i \in 1..Len(cs) : cs[i].name = param]

\* numpy.linspace(lower, upper, num): num evenly spaced values, both ends included
Linspace(lower, upper, num) ==
    [i \in 1..num |->
        IF num = 1 THEN lower ELSE lower + ((i - 1) * (upper - lower)) \div (num - 1)]

\* the grid values of one hyperparameter: grid_dims[name] steps over its range
ValueSet(hp, grid_dims) ==
    Linspace(hp.lower, hp.lower + hp.width, grid_dims[hp.name])

\* every cell of rest with the item (name, v) put in front
Prepend(name, v, rest) ==
    [j \in 1..Len(rest) |-> <<[param |-> name, value |-> v]>> \o rest[j]]

\* itertools.product of one axis with the product of the axes after it:
\* for each value of the axis in turn, every cell of rest
RECURSIVE ProductFrom(_, _, _)
ProductFrom(name, axis, rest) ==
    IF axis = <<>> THEN <<>>
    ELSE Prepend(name, Head(axis), rest) \o ProductFrom(name, Tail(axis), rest)

\* generate_grid(config_space, grid_dims) of the ConfigSpace library, which
\* configurations() only calls: taken as the specification describes the grid,
\* the Cartesian product of the value sets in declaration order, each cell the
\* items (param, value) of one hyperparameter combination. What the grid holds
\* is the library's doing; the program's own steps only iterate over it
RECURSIVE GenerateGrid(_, _)
GenerateGrid(cs, grid_dims) ==
    IF cs = <<>> THEN << <<>> >>
    ELSE ProductFrom(Head(cs).name, ValueSet(Head(cs), grid_dims),
                     GenerateGrid(Tail(cs), grid_dims))

\* print_info: the total it prints, the product of the grid steps
RECURSIVE TotalConfigs(_, _)
TotalConfigs(cs, grid_dims) ==
    IF cs = <<>> THEN 1
    ELSE grid_dims[Head(cs).name] * TotalConfigs(Tail(cs), grid_dims)

\* 2^k modulo m
RECURSIVE Pow2Mod(_, _)
Pow2Mod(k, m) == IF k = 0 THEN 1 % m ELSE (2 * Pow2Mod(k - 1, m)) % m

\* a * b modulo m, by doubling, for 0 <= a < m (no product above 3 * m)
RECURSIVE MulMod(_, _, _)
MulMod(a, b, m) ==
    IF b = 0 THEN 0
    ELSE (2 * MulMod(a, b \div 2, m) + (IF b % 2 = 1 THEN a ELSE 0)) % m

\* the number of doublings that take n (0 < n) to 10^7 or above, and of
\* halvings that take it below 2 * 10^7: the binary exponent of n * 1e-7
RECURSIVE DoublingsToUnit(_)
DoublingsToUnit(n) == IF n >= 10000000 THEN 0 ELSE 1 + DoublingsToUnit(2 * n)
RECURSIVE HalvingsToUnit(_)
HalvingsToUnit(n) == IF n < 20000000 THEN 0 ELSE 1 + HalvingsToUnit(n \div 2)

\* what the division n / 10^7 leaves over when the double nearest to
\* n * 1e-7 is formed: (n * 2^k) modulo 10^7, k the scale that gives a 53-bit
\* significand. 0: the double is n * 1e-7 exactly; below the half of 10^7: the
\* double is under n * 1e-7; above: it is over (the half itself cannot occur)
DoubleRemainder(n) ==
    MulMod(n % 10000000,
           Pow2Mod(52 + DoublingsToUnit(n) - HalvingsToUnit(n), 10000000),
           10000000)

\* round(value, 6) of the float value * 1e-7, in units of 1e-6. Python rounds
\* the double itself, correctly: a value whose seventh decimal is 5 goes the
\* way its double lies from the decimal, and half to even only when the double
\* is that decimal exactly
Round6(value) ==
    LET q == value \div 10
        r == value % 10
    IN  IF r < 5 THEN q
        ELSE IF r > 5 THEN q + 1
        ELSE IF DoubleRemainder(value) = 0 THEN (IF q % 2 = 0 THEN q ELSE q + 1)
        ELSE IF 2 * DoubleRemainder(value) > 10000000 THEN q + 1 ELSE q

\* f"{param}={round(value, 6)}": one item of the label, for a value that is a
\* float (every hyperparameter here is a float range, so the branch of the
\* conditional for a value that is no number is never taken)
LabelItem(param, value) == <<param, Round6(value)>>

\* --------------------------------------------------------------- state

VARIABLES
    config_space,   \* ExperimentConfigManager._config_space: the declared hyperparameters
    grid_dims,      \* raw_exp_config["grid"]: steps per hyperparameter name
    runs,           \* raw_exp_config["runs"]
    grid,           \* ExperimentConfigManager.grid
    total_configs,  \* the total print_info printed at construction
    heap,           \* the dictionaries, by identity
    pc,             \* position of run_experiments: "iter", "run", "collect", "done", "error";
                    \* "client" when the client of an Experiment has the control
    cell_index,     \* number of grid cells the configurations() generator has taken
    configs,        \* the ExperimentConfig objects yielded so far: [config, label]
    experiment,     \* the current Experiment: [config, results]
    run_i,          \* iterations of the loop of Experiment.run completed
    results,        \* the ExperimentResultSet of run_experiments: entries [key, value]
    error,          \* the exception that left run_experiments: [kind, index, partial]
    calls,          \* the iterations of Experiment.run begun, each with its run_pipeline
                    \* invocation: [cell, run, ok, result, model, manager]
    caller,         \* the caller of Experiment.run: "run_experiments", or "client" for
                    \* code that uses an ExperimentConfig and an Experiment directly
    run_repeat,     \* the repeat argument of the current call of Experiment.run
    cancelled,      \* a cancellation of run_experiments has been requested
    held,           \* the RunResultSet the client got from get_run_results
    got,            \* the params dictionary the client got from a getter: [stage, object]
    requested,      \* the repeat arguments of the client's calls of Experiment.run
    gets            \* number of getter calls the client made

vars == <<config_space, grid_dims, runs, grid, total_configs, heap, pc, cell_index,
          configs, experiment, run_i, results, error, calls, caller, run_repeat,
          cancelled, held, got, requested, gets>>

inputs == <<config_space, grid_dims, runs, grid, total_configs, caller>>

\* what only a client of ExperimentConfig and Experiment changes
client == <<held, got, requested, gets>>

\* ExperimentConfig.get_label
GetLabel(cfg) == cfg.label

\* the value of params[name] of a stage of a configuration dictionary
ReadParam(h, o, stage, name) == h[h[h[o][stage].v]["params"].v][name].v

\* current_config.get(key) is None
StageMissing(h, current_config, key) == key \notin DOMAIN h[current_config]

\* the loop of configurations() with the two checks turned into a silent skip
\* of the hyperparameter
RECURSIVE UpdateLoopSkips(_, _, _, _, _)
UpdateLoopSkips(h, current_config, items, label, cs) ==
    IF items = <<>> THEN [heap |-> h, label |-> label, raised |-> "none"]
    ELSE LET param == Head(items).param
             value == Head(items).value
             key   == GetHyperparameter(cs, param).config
         IN  IF key = None \/ StageMissing(h, current_config, key)
             THEN UpdateLoopSkips(h, current_config, Tail(items), label, cs)
             ELSE UpdateLoopSkips(
                      DictionaryUpdateDeep(h, h[current_config][key].v, param, value),
                      current_config, Tail(items),
                      Append(label, LabelItem(param, value)), cs)

\* the loop of configurations() over the items of one cell: for each, the
\* meta "config" lookup, the two checks, the deep update and the label item.
\* raised names the exception that ended the loop, "none" if it ran to its end
RECURSIVE UpdateLoop(_, _, _, _, _)
UpdateLoop(h, current_config, items, label, cs) ==
    IF items = <<>> THEN [heap |-> h, label |-> label, raised |-> "none"]
    ELSE LET param == Head(items).param
             value == Head(items).value
             key   == GetHyperparameter(cs, param).config
         IN  IF key = None
             THEN [heap |-> h, label |-> label, raised |-> "ValueError"]
             ELSE IF StageMissing(h, current_config, key)
             THEN [heap |-> h, label |-> label, raised |-> "ValueError"]
             ELSE UpdateLoop(DictionaryUpdateDeep(h, h[current_config][key].v, param, value),
                             current_config, Tail(items),
                             Append(label, LabelItem(param, value)), cs)

\* cell.get_dictionary().items()
GetDictionaryItems(cell) == cell

\* the grid iterated from its last cell to its first
NextCellReversed(g, k) == g[Len(g) - k]

\* the cell the loop of configurations() takes after cell_index cells
NextCell(g, k) == g[k + 1]

\* the loop of configurations() with the deep update of the last item left
\* out: its checks are made and its label item is appended, its value not written
BuildConfigurationLastUnwritten(h, cell, cs) ==
    LET h1 == ShallowCopy(h, RawPipelineConfig)
        items == GetDictionaryItems(cell)
        full == UpdateLoop(h1, Newest(h1), items, <<>>, cs)
        front == UpdateLoop(h1, Newest(h1), SubSeq(items, 1, Len(items) - 1), <<>>, cs)
    IN  IF full.raised = "none" THEN [full EXCEPT !.heap = front.heap] ELSE full

\* one iteration of the loop of configurations(), up to its yield or its raise
BuildConfiguration(h, cell, cs) ==
    LET h1 == ShallowCopy(h, RawPipelineConfig)
    IN  UpdateLoop(h1, Newest(h1), GetDictionaryItems(cell), <<>>, cs)

\* range(repeat - 1): one iteration short
RangeHasNextOffByOne(i, repeat) == i + 1 < repeat

\* range(repeat) has a value left after i iterations
RangeHasNext(i, repeat) == i < repeat

\* what the pipeline reads of its configuration: each hyperparameter's value
\* in the params of the stage it is bound to
Observed(h, cfg, cs) ==
    [i \in 1..Len(cs) |-> ReadParam(h, cfg.config, cs[i].config, cs[i].name)]

\* RunResultSet.add_result
AddRunResult(rs, result) == Append(rs, result)

\* RunResultSet.copy
CopyRunResults(rs) == rs

RECURSIVE SumSeen(_, _)
SumSeen(rs, n) ==
    IF rs = <<>> THEN [i \in 1..n |-> 0]
    ELSE LET rest == SumSeen(Tail(rs), n)
         IN  [i \in 1..n |-> Head(rs).seen[i] + rest[i]]

\* RunResultSet.combine: the aggregate of the contained results, the count and
\* the per-metric sum that give the mean
Combine(rs, n) == [count |-> Len(rs), sum |-> SumSeen(rs, n)]

\* the keys of an ExperimentResultSet
Keys(ers) == {ers[i].key : i \in 1..Len(ers)}

\* add_result as a plain dictionary store: a key already present is rebound
AddResultOverwrites(ers, result, key) ==
    IF key \in Keys(ers)
    THEN [results |-> [i \in 1..Len(ers) |->
                          IF ers[i].key = key THEN [key |-> key, value |-> result]
                          ELSE ers[i]],
          raised |-> "none"]
    ELSE [results |-> Append(ers, [key |-> key, value |-> result]), raised |-> "none"]

\* ExperimentResultSet.add_result(result, key): a new entry at the end; a key
\* already present is refused (DuplicateLabel)
AddResult(ers, result, key) ==
    IF key \in Keys(ers)
    THEN [results |-> ers, raised |-> "DuplicateLabel"]
    ELSE [results |-> Append(ers, [key |-> key, value |-> result]), raised |-> "none"]

NoExperiment == [config |-> 0, results |-> <<>>]

\* an exception as the code raises it: its type, and no failing index or partial
\* result set attached to it (index 0, partial empty); kind "none" is no exception
Exception(kind) == [kind |-> kind, index |-> 0, partial |-> <<>>]

\* the result record run_pipeline returns for a configuration: its label and
\* what the pipeline read of it
PipelineResult(h, cfg, cs) == [label |-> GetLabel(cfg), seen |-> Observed(h, cfg, cs)]

\* the record of a run_pipeline invocation that raised
NoResult == [label |-> <<>>, seen |-> <<>>]

\* the params dictionary of a stage of a configuration
StageParams(h, cfg, stage) == h[h[cfg.config][stage].v]["params"].v

\* the getters get_model_params, get_preprocessing_params, get_training_params,
\* get_validation_params: dict(...) of the stage's params, a new dictionary;
\* get_testing_params: the stage's params dictionary itself
GetParams(h, cfg, stage) ==
    IF stage = "test"
    THEN [heap |-> h, object |-> StageParams(h, cfg, stage)]
    ELSE LET h1 == ShallowCopy(h, StageParams(h, cfg, stage))
         IN  [heap |-> h1, object |-> Newest(h1)]

\* number of model and manager instances constructed so far: two for every
\* iteration of Experiment.run begun
InstancesMade(cs) == 2 * Len(cs)

\* the model constructed once, before the loop, and used by every iteration
NewModelShared(h, cfg, made) ==
    LET g == GetParams(h, cfg, "model")
    IN  [id |-> 1, args |-> [k \in DOMAIN g.heap[g.object] |-> g.heap[g.object][k].v]]

\* model_type(**get_model_params()): a new model instance, the made+1-th
\* instance, constructed from the keyword arguments the copy of the model
\* params holds
NewModel(h, cfg, made) ==
    LET g == GetParams(h, cfg, "model")
    IN  [id |-> made + 1, args |-> [k \in DOMAIN g.heap[g.object] |-> g.heap[g.object][k].v]]

\* model_manager(): a new manager instance, with no model bound yet
NewManager(made) == [id |-> made + 1, model |-> 0]

\* model_manager.set_model(model)
SetModel(manager, model) == [manager EXCEPT !.model = model.id]

\* the first three statements of an iteration of Experiment.run: the model, the
\* manager constructed after it, and the model bound to the manager
Instances(h, cfg, made) ==
    LET model == NewModel(h, cfg, made)
    IN  [model |-> model, manager |-> SetModel(NewManager(made + 1), model)]

\* model_manager.run_pipeline(config): the result the pipeline returns for the
\* configuration, a new object marked with the manager that produced it
RunPipelineOn(manager, h, cfg, cs) ==
    [label |-> PipelineResult(h, cfg, cs).label, seen |-> PipelineResult(h, cfg, cs).seen,
     by |-> manager.id]

\* the record of an iteration of Experiment.run
Iteration(cell, run, ok, result, inst) ==
    [cell |-> cell, run |-> run, ok |-> ok, result |-> result,
     model |-> inst.model, manager |-> inst.manager]

\* no RunResultSet held, no params dictionary got
NoneHeld == [id |-> 0, own |-> FALSE, items |-> <<>>, combines |-> 0,
             aggregate |-> [count |-> 0, sum |-> <<>>]]
NoneGot == [stage |-> None, object |-> 0]

Init ==
    /\ config_space \in ConfigSpaces
    /\ grid_dims \in [{config_space[i].name : i \in 1..Len(config_space)} -> 1..MaxSteps]
    /\ runs \in RunCounts
    /\ grid = GenerateGrid(config_space, grid_dims)
    /\ total_configs = TotalConfigs(config_space, grid_dims)
    /\ heap = InitialHeap
    /\ pc = "iter"
    /\ cell_index = 0
    /\ configs = <<>>
    /\ experiment = NoExperiment
    /\ run_i = 0
    /\ results = <<>>
    /\ error = Exception("none")
    /\ calls = <<>>
    /\ caller = "run_experiments"
    /\ run_repeat = 0
    /\ cancelled = FALSE
    /\ held = NoneHeld
    /\ got = NoneGot
    /\ requested = <<>>
    /\ gets = 0

\* configurations() yields the next ExperimentConfig; run_experiments makes
\* its Experiment and calls run
YieldConfiguration ==
    /\ pc = "iter"
    /\ cell_index < Len(grid)
    /\ LET b == BuildConfiguration(heap, NextCell(grid, cell_index), config_space)
           h == ShallowCopy(b.heap, Newest(b.heap))
       IN  /\ b.raised = "none"
           /\ heap' = h
           /\ configs' = Append(configs, [config |-> Newest(h), label |-> b.label])
           /\ experiment' = [config |-> Len(configs) + 1, results |-> <<>>]
    /\ cell_index' = cell_index + 1
    /\ run_repeat' = runs
    /\ run_i' = 0
    /\ pc' = "run"
    /\ UNCHANGED <<inputs, results, error, calls, cancelled, client>>

\* configurations() raises ValueError for a hyperparameter without a binding
\* or bound to a stage the configuration lacks
ConfigurationRaises ==
    /\ pc = "iter"
    /\ cell_index < Len(grid)
    /\ LET b == BuildConfiguration(heap, NextCell(grid, cell_index), config_space)
       IN  /\ b.raised # "none"
           /\ heap' = b.heap
           /\ error' = Exception(b.raised)
    /\ cell_index' = cell_index + 1
    /\ pc' = "error"
    /\ UNCHANGED <<inputs, configs, experiment, run_i, results, calls,
                   run_repeat, cancelled, client>>

\* the grid is exhausted: run_experiments returns results
ReturnResults ==
    /\ pc = "iter"
    /\ cell_index = Len(grid)
    /\ pc' = "done"
    /\ UNCHANGED <<inputs, heap, cell_index, configs, experiment, run_i, results, error,
                   calls, run_repeat, cancelled, client>>

\* one iteration of Experiment.run: run_pipeline returns a result, which is added
RunPipeline ==
    /\ pc = "run"
    /\ RangeHasNext(run_i, run_repeat)
    /\ LET cfg == configs[experiment.config]
           inst == Instances(heap, cfg, InstancesMade(calls))
           result == RunPipelineOn(inst.manager, heap, cfg, config_space)
       IN  /\ experiment' = [experiment EXCEPT !.results = AddRunResult(@, result)]
           /\ calls' = Append(calls, Iteration(cell_index, run_i + 1, TRUE, result, inst))
    /\ run_i' = run_i + 1
    /\ UNCHANGED <<inputs, heap, pc, cell_index, configs, results, error, run_repeat,
                   cancelled, client>>

\* one iteration of Experiment.run: run_pipeline raises; nothing catches it
PipelineRaises ==
    /\ pc = "run"
    /\ RangeHasNext(run_i, run_repeat)
    /\ calls' = Append(calls, Iteration(cell_index, run_i + 1, FALSE, NoResult,
                          Instances(heap, configs[experiment.config], InstancesMade(calls))))
    /\ error' = Exception("PipelineError")
    /\ pc' = "error"
    /\ UNCHANGED <<inputs, heap, cell_index, configs, experiment, run_i, results,
                   run_repeat, cancelled, client>>

\* Experiment.run returns and run_experiments goes straight on to the next
\* configuration, the insertion of the result left for after its loop
RunReturnsUncollected ==
    /\ pc = "run"
    /\ ~RangeHasNext(run_i, run_repeat)
    /\ pc' = IF caller = "run_experiments" THEN "iter" ELSE "client"
    /\ UNCHANGED <<inputs, heap, cell_index, configs, experiment, run_i, results, error,
                   calls, run_repeat, cancelled, client>>

\* range(repeat) is exhausted: Experiment.run returns
RunReturns ==
    /\ pc = "run"
    /\ ~RangeHasNext(run_i, run_repeat)
    /\ pc' = IF caller = "run_experiments" THEN "collect" ELSE "client"
    /\ UNCHANGED <<inputs, heap, cell_index, configs, experiment, run_i, results, error,
                   calls, run_repeat, cancelled, client>>

\* results.add_result(experiment.get_run_results().combine(), key=config.get_label())
CollectResult ==
    /\ pc = "collect"
    /\ LET cfg == configs[experiment.config]
           a == AddResult(results,
                          Combine(CopyRunResults(experiment.results), Len(config_space)),
                          GetLabel(cfg))
       IN  /\ results' = a.results
           /\ error' = Exception(a.raised)
           /\ pc' = IF a.raised = "none" THEN "iter" ELSE "error"
    /\ UNCHANGED <<inputs, heap, cell_index, configs, experiment, run_i, calls,
                   run_repeat, cancelled, client>>

Next ==
    \/ YieldConfiguration
    \/ ConfigurationRaises
    \/ ReturnResults
    \/ RunPipeline
    \/ PipelineRaises
    \/ RunReturns
    \/ CollectResult

Spec == Init /\ [][Next]_vars

\* ------------------------------------------------- a cancellation request

\* the environment asks run_experiments to stop, between two configurations:
\* run_experiments takes no cancellation token and its loop reads none, so the
\* request changes nothing the loop looks at
RequestCancel ==
    /\ pc = "iter"
    /\ 0 < cell_index
    /\ cell_index < Len(grid)
    /\ ~cancelled
    /\ cancelled' = TRUE
    /\ UNCHANGED <<inputs, heap, pc, cell_index, configs, experiment, run_i, results,
                   error, calls, run_repeat, client>>

CancelNext ==
    \/ YieldConfiguration
    \/ ConfigurationRaises
    \/ ReturnResults
    \/ RunPipeline
    \/ PipelineRaises
    \/ RunReturns
    \/ CollectResult
    \/ RequestCancel

\* run_experiments with a cancellation requested at some configuration boundary
CancelSpec == Init /\ [][CancelNext]_vars

\* ------------------------------------- the key order of a cell's dictionary

\* the orders in which cell.get_dictionary() may list n hyperparameters: the
\* order is the ConfigSpace library's, the same for every cell of a grid, and
\* need not be the order of declaration
DictionaryOrders(n) ==
    {f \in [1..n -> 1..n] : \A i \in 1..n : \A j \in 1..n : f[i] = f[j] => i = j}

\* the items of a cell listed in the order f
Reorder(cell, f) == [i \in 1..Len(cell) |-> cell[f[i]]]

\* the state after construction, the cells' dictionaries in any one key order
LabelInit ==
    /\ config_space \in ConfigSpaces
    /\ grid_dims \in [{config_space[i].name : i \in 1..Len(config_space)} -> 1..MaxSteps]
    /\ runs \in RunCounts
    /\ \E f \in DictionaryOrders(Len(config_space)) :
          grid = [j \in 1..Len(GenerateGrid(config_space, grid_dims)) |->
                     Reorder(GenerateGrid(config_space, grid_dims)[j], f)]
    /\ total_configs = TotalConfigs(config_space, grid_dims)
    /\ heap = InitialHeap
    /\ pc = "iter"
    /\ cell_index = 0
    /\ configs = <<>>
    /\ experiment = NoExperiment
    /\ run_i = 0
    /\ results = <<>>
    /\ error = Exception("none")
    /\ calls = <<>>
    /\ caller = "run_experiments"
    /\ run_repeat = 0
    /\ cancelled = FALSE
    /\ held = NoneHeld
    /\ got = NoneGot
    /\ requested = <<>>
    /\ gets = 0

\* run_experiments over a grid whose cells list their items in any one order
LabelSpec == LabelInit /\ [][Next]_vars

\* ------------------------------------------- a client of one Experiment

\* the configuration spaces of a client's configuration: every hyperparameter
\* bound to a stage of the template
ClientConfigSpaces ==
    {cs \in ConfigSpaces :
        \A i \in 1..Len(cs) : cs[i].config \in {"model", "train"} /\ cs[i].width = 12}

\* the first ExperimentConfig configurations() yields: the heap after it was
\* built and wrapped, and the configuration
FirstConfiguration(cs, g) ==
    LET b == BuildConfiguration(InitialHeap, NextCell(g, 0), cs)
        h == ShallowCopy(b.heap, Newest(b.heap))
    IN  [heap |-> h, config |-> [config |-> Newest(h), label |-> b.label]]

\* a client holds the first configuration of a one-cell grid and a new
\* Experiment made of it
ClientInit ==
    /\ config_space \in ClientConfigSpaces
    /\ grid_dims = [n \in {config_space[i].name : i \in 1..Len(config_space)} |-> 1]
    /\ runs = 1
    /\ grid = GenerateGrid(config_space, grid_dims)
    /\ total_configs = TotalConfigs(config_space, grid_dims)
    /\ heap = FirstConfiguration(config_space, grid).heap
    /\ pc = "client"
    /\ cell_index = 1
    /\ configs = <<FirstConfiguration(config_space, grid).config>>
    /\ experiment = [config |-> 1, results |-> <<>>]
    /\ run_i = 0
    /\ results = <<>>
    /\ error = Exception("none")
    /\ calls = <<>>
    /\ caller = "client"
    /\ run_repeat = 0
    /\ cancelled = FALSE
    /\ held = NoneHeld
    /\ got = NoneGot
    /\ requested = <<>>
    /\ gets = 0

\* run() with the result set made anew at every call
ClientRunResets ==
    /\ pc = "client"
    /\ \E r \in 1..MaxRuns :
          /\ Len(experiment.results) + r <= MaxRuns
          /\ requested' = Append(requested, r)
          /\ run_repeat' = r
    /\ experiment' = [experiment EXCEPT !.results = <<>>]
    /\ run_i' = 0
    /\ pc' = "run"
    /\ UNCHANGED <<inputs, heap, cell_index, configs, results, error, calls,
                   cancelled, held, got, gets>>

\* the client calls experiment.run(repeat = r): the loop starts over the
\* result set as it is
ClientRun ==
    /\ pc = "client"
    /\ \E r \in 1..MaxRuns :
          /\ Len(experiment.results) + r <= MaxRuns
          /\ requested' = Append(requested, r)
          /\ run_repeat' = r
    /\ run_i' = 0
    /\ pc' = "run"
    /\ UNCHANGED <<inputs, heap, cell_index, configs, experiment, results, error, calls,
                   cancelled, held, got, gets>>

\* get_run_results returning the Experiment's own set
GetRunResultsNoCopy(exp, id) ==
    [id |-> id, own |-> TRUE, items |-> exp.results, combines |-> 0,
     aggregate |-> NoneHeld.aggregate]

\* Experiment.get_run_results: self._results.copy(), a set of its own (the
\* id-th the client got), nothing combined yet
GetRunResults(exp, id) ==
    [id |-> id, own |-> FALSE, items |-> CopyRunResults(exp.results), combines |-> 0,
     aggregate |-> NoneHeld.aggregate]

\* the client calls experiment.get_run_results()
ClientGetsRunResults ==
    /\ pc = "client"
    /\ held.id < MaxGets
    /\ held' = GetRunResults(experiment, held.id + 1)
    /\ UNCHANGED <<inputs, heap, pc, cell_index, configs, experiment, run_i, results,
                   error, calls, run_repeat, cancelled, got, requested, gets>>

\* a RunResult the client made itself
ForeignResult(cs) == [label |-> <<>>, seen |-> [i \in 1..Len(cs) |-> 7], by |-> 0]

\* the states of a RunResultSet
RsState(rs) ==
    IF rs.combines > 0 THEN "Combined"
    ELSE IF rs.items = <<>> THEN "Empty" ELSE "Accumulating"

\* RunResultSet.add_result on a set: refused once the set is Combined
SetAddResult(rs, result) ==
    IF RsState(rs) = "Combined" THEN rs
    ELSE [rs EXCEPT !.items = AddRunResult(@, result)]

\* RunResultSet.combine on a set: the aggregate of the contained results; the
\* set is Combined from then on and its results stay as they are
SetCombine(rs, n) ==
    [rs EXCEPT !.aggregate = Combine(rs.items, n), !.combines = @ + 1]

\* the client adds a result of its own to the set it got; a set that is the
\* Experiment's own is the Experiment's result set
ClientAddsResult ==
    /\ pc = "client"
    /\ held.id > 0
    /\ \A i \in 1..Len(held.items) : held.items[i] # ForeignResult(config_space)
    /\ held' = SetAddResult(held, ForeignResult(config_space))
    /\ held' # held
    /\ experiment' = IF held.own THEN [experiment EXCEPT !.results = held'.items]
                                 ELSE experiment
    /\ UNCHANGED <<inputs, heap, pc, cell_index, configs, run_i, results, error, calls,
                   run_repeat, cancelled, got, requested, gets>>

\* the client calls combine() on the set it got
ClientCombines ==
    /\ pc = "client"
    /\ held.id > 0
    /\ held.combines < MaxCombines
    /\ held' = SetCombine(held, Len(config_space))
    /\ experiment' = IF held.own THEN [experiment EXCEPT !.results = held'.items]
                                 ELSE experiment
    /\ UNCHANGED <<inputs, heap, pc, cell_index, configs, run_i, results, error, calls,
                   run_repeat, cancelled, got, requested, gets>>

ClientNext ==
    \/ ClientRun
    \/ RunPipeline
    \/ PipelineRaises
    \/ RunReturns
    \/ ClientGetsRunResults
    \/ ClientAddsResult
    \/ ClientCombines

\* a client that runs one Experiment any number of times and reads its results
ClientSpec == ClientInit /\ [][ClientNext]_vars

\* ------------------------------------- a client of the getters of a configuration

\* the client calls one of the five params getters of its configuration
ClientGetsParams ==
    /\ pc = "client"
    /\ gets < MaxGets
    /\ \E i \in 1..Len(Stages) :
          LET g == GetParams(heap, configs[experiment.config], Stages[i])
          IN  /\ heap' = g.heap
              /\ got' = [stage |-> Stages[i], object |-> g.object]
    /\ gets' = gets + 1
    /\ UNCHANGED <<inputs, pc, cell_index, configs, experiment, run_i, results, error,
                   calls, run_repeat, cancelled, held, requested>>

\* the client rebinds a key of the dictionary it got: d[k] = 0.0000007
ClientRebindsKey ==
    /\ pc = "client"
    /\ got.object > 0
    /\ \E k \in DOMAIN heap[got.object] :
          /\ heap[got.object][k] # Num(7)
          /\ heap' = [heap EXCEPT ![got.object][k] = Num(7)]
    /\ UNCHANGED <<inputs, pc, cell_index, configs, experiment, run_i, results, error,
                   calls, run_repeat, cancelled, client>>

\* the client adds a key to the dictionary it got: d["extra"] = 0.0000007
ClientAddsKey ==
    /\ pc = "client"
    /\ got.object > 0
    /\ "extra" \notin DOMAIN heap[got.object]
    /\ heap' = [heap EXCEPT ![got.object] =
                    [k \in DOMAIN @ \cup {"extra"} |-> IF k = "extra" THEN Num(7) ELSE @[k]]]
    /\ UNCHANGED <<inputs, pc, cell_index, configs, experiment, run_i, results, error,
                   calls, run_repeat, cancelled, client>>

\* the client removes a key of the dictionary it got: del d[k]
ClientRemovesKey ==
    /\ pc = "client"
    /\ got.object > 0
    /\ \E k \in DOMAIN heap[got.object] :
          heap' = [heap EXCEPT ![got.object] = [x \in DOMAIN @ \ {k} |-> @[x]]]
    /\ UNCHANGED <<inputs, pc, cell_index, configs, experiment, run_i, results, error,
                   calls, run_repeat, cancelled, client>>

GetterNext ==
    \/ ClientGetsParams
    \/ ClientRebindsKey
    \/ ClientAddsKey
    \/ ClientRemovesKey

\* a client that reads the params of its configuration through the getters and
\* changes the dictionaries it gets
GetterSpec == ClientInit /\ [][GetterNext]_vars

\* ---------------------------------------------------------------- claims

\* the value a cell assigns to a hyperparameter
CellValue(cell, name) ==
    cell[CHOOSE i \in 1..Len(cell) : cell[i].param = name].value

\* the hyperparameter has a binding to a stage of the template
IsBound(hp) == hp.config # None /\ hp.config \in DOMAIN InitialHeap[RawPipelineConfig]

\* C1: building the configurations never changes the pipeline template held by
\* ExperimentConfigManager: at every point of the iteration the nested value of
\* _raw_pipeline_config (every stage's meta and params) is what it was at first.
C1_TemplateNeverMutated ==
    Deref(heap, RawPipelineConfig) = Deref(InitialHeap, RawPipelineConfig)

\* C2: the configurations built so far are independent: each one still reads,
\* for every hyperparameter, the value of the grid cell it was built for,
\* whatever configurations were built after it.
C2_ConfigurationsIndependent ==
    \A j \in 1..Len(configs) : \A i \in 1..Len(config_space) :
        ReadParam(heap, configs[j].config, config_space[i].config, config_space[i].name)
            = CellValue(grid[j], config_space[i].name)

\* the label configurations() gives the configuration of a cell
CellLabel(cell) == [m \in 1..Len(cell) |-> LabelItem(cell[m].param, cell[m].value)]

\* the results run_pipeline returned for the k-th cell, in invocation order
ResultsOfCell(k) ==
    LET mine == SelectSeq(calls, LAMBDA c : c.cell = k /\ c.ok)
    IN  [i \in 1..Len(mine) |-> mine[i].result]

\* the aggregate of the k-th cell
AggregateOfCell(k) == Combine(ResultsOfCell(k), Len(config_space))

\* C5: when run_experiments has returned normally the result set has exactly
\* one entry per grid cell: every cell's label is the key of exactly one entry,
\* every key is the label of exactly one cell, and the value under a cell's
\* label is combine() of the results of that cell's runs, of which there are
\* `runs`.
C5_OneEntryPerCell ==
    pc = "done" =>
        /\ Len(results) = Len(grid)
        /\ Len(configs) = Len(grid)
        /\ \A k \in 1..Len(grid) :
              /\ configs[k].label = CellLabel(grid[k])
              /\ Cardinality({i \in 1..Len(results) : results[i].key = CellLabel(grid[k])}) = 1
              /\ \A i \in 1..Len(results) :
                    results[i].key = CellLabel(grid[k])
                        => results[i].value = AggregateOfCell(k)
              /\ runs >= 0 => Len(ResultsOfCell(k)) = runs
        /\ \A i \in 1..Len(results) :
              Cardinality({k \in 1..Len(grid) : CellLabel(grid[k]) = results[i].key}) = 1

\* C5 witness: a grid of several cells, run twice or more each, returned its results
C5_Witness ==
    /\ pc = "done"
    /\ Len(grid) >= 4
    /\ runs >= 2
    /\ Len(results) = Len(grid)
    /\ results[2].value.count = runs

\* C6: an insertion under a label that already has an entry fails with
\* DuplicateLabel and changes nothing, and no step ever replaces or removes an
\* entry of the result set.
C6_DuplicateLabelFailsFast ==
    [][ /\ (pc = "collect" /\ GetLabel(configs[experiment.config]) \in Keys(results))
            => (pc' = "error" /\ error'.kind = "DuplicateLabel" /\ results' = results)
        /\ Len(results') >= Len(results)
        /\ \A i \in 1..Len(results) : results'[i] = results[i] ]_vars

\* C6 witness: two different cells with one label; inserting the second failed
C6_Witness ==
    /\ pc = "error"
    /\ error.kind = "DuplicateLabel"
    /\ \E j \in 1..Len(results) :
          /\ grid[j] # grid[cell_index]
          /\ CellLabel(grid[j]) = CellLabel(grid[cell_index])
          /\ results[j].key = CellLabel(grid[cell_index])
          /\ results[j].value = AggregateOfCell(j)

\* the last run_pipeline invocation raised
PipelineFailed == calls # <<>> /\ ~calls[Len(calls)].ok

\* C7: a pipeline execution that raises during repeat i is surfaced
\* as a RunFailed error carrying the failing index i and a partial result set of
\* exactly the i-1 results of the repeats completed before it.
C7_RunFailedCarriesPartial ==
    PipelineFailed =>
        /\ pc = "error"
        /\ error.kind = "RunFailed"
        /\ error.index = calls[Len(calls)].run
        /\ error.partial = ResultsOfCell(cell_index)

\* C8: with a repeat count below 1 Experiment.run fails with InvalidRepeatCount:
\* it never returns normally, no pipeline invocation is made and no aggregate
\* is produced or inserted.
C8_InvalidRepeatCountRaised ==
    runs < 1 =>
        /\ pc \in {"iter", "run", "error"}
        /\ (pc = "error" /\ configs # <<>>) => error.kind = "InvalidRepeatCount"
        /\ calls = <<>>
        /\ results = <<>>

\* C9: if a hyperparameter has no binding, or is bound to a stage the template
\* lacks, the iteration raises an error while building the first configuration:
\* nothing is yielded or skipped, and no pipeline invocation has been made.
C9_UnboundHyperparameterRaises ==
    (\E i \in 1..Len(config_space) : ~IsBound(config_space[i])) =>
        \/ pc = "iter" /\ cell_index = 0 /\ error.kind = "none" /\ calls = <<>>
        \/ /\ pc = "error"
           /\ error.kind = "ValueError"
           /\ calls = <<>>
           /\ configs = <<>>
           /\ results = <<>>

\* C9 witness: the second hyperparameter is bound to a stage absent from the
\* template; the error was raised after the first one had been written
C9_Witness ==
    /\ Len(config_space) = 2
    /\ IsBound(config_space[1])
    /\ config_space[2].config = "evaluate"
    /\ pc = "error"
    /\ error.kind = "ValueError"
    /\ calls = <<>>

\* C10: the entries of the result set are in grid order: the i-th entry is the
\* entry of the i-th grid cell (its label and its aggregate), so the entry of
\* cell j precedes the entry of cell k whenever j < k.
C10_ResultsInGridOrder ==
    /\ Len(results) <= cell_index
    /\ \A i \in 1..Len(results) :
          /\ results[i].key = CellLabel(grid[i])
          /\ results[i].value = AggregateOfCell(i)

\* C10 witness: three cells of a two-hyperparameter grid have their entries
C10_Witness ==
    /\ Len(config_space) = 2
    /\ Len(results) >= 3
    /\ results[1].key # results[3].key
    /\ runs >= 1

\* C11: once a cancellation has been requested between two configurations,
\* run_experiments takes no further grid cell and runs no further pipeline: its
\* only step is to return, without an error, the result set as it stood at the
\* request, every aggregate in it unchanged.
C11_CancellationStopsRun ==
    [][cancelled =>
          /\ pc' = "done"
          /\ error'.kind = "none"
          /\ cell_index' = cell_index
          /\ calls' = calls
          /\ results' = results]_vars

\* C13: the label of a configuration depends on the assignment only, not on
\* the key order of the cell's dictionary: it is the name=value items of the
\* cell's assignment joined in the order the hyperparameters are declared.
C13_LabelInDeclarationOrder ==
    \A k \in 1..Len(configs) :
        configs[k].label =
            [i \in 1..Len(config_space) |->
                <<config_space[i].name, Round6(CellValue(grid[k], config_space[i].name))>>]

\* the values a cell assigns, in declaration order
CellValues(cell) ==
    [i \in 1..Len(config_space) |-> CellValue(cell, config_space[i].name)]

\* C14: at every run_pipeline invocation the configuration handed to the
\* pipeline holds, for every hyperparameter, the value of the invocation's grid
\* cell in the params of the stage the hyperparameter is bound to, and its label
\* names that cell's assignment; this is so of the configuration of the
\* experiment that is running, whichever invocation comes next.
C14_PipelineSeesItsCell ==
    /\ \A c \in 1..Len(calls) :
          calls[c].ok =>
              /\ calls[c].result.seen = CellValues(grid[calls[c].cell])
              /\ calls[c].result.label = CellLabel(grid[calls[c].cell])
    /\ pc = "run" =>
          /\ Observed(heap, configs[experiment.config], config_space)
                 = CellValues(grid[cell_index])
          /\ GetLabel(configs[experiment.config]) = CellLabel(grid[cell_index])

\* the two cells of the axis [0.1, 0.1000012] of lr, bound to model, have both
\* been run, the pipeline reading 0.1 and then 0.1000012 in model.params.lr
C14_Witness ==
    /\ Len(config_space) = 1
    /\ config_space[1].name = "lr"
    /\ config_space[1].config = "model"
    /\ config_space[1].width = 12
    /\ grid_dims["lr"] = 2
    /\ Len(calls) = 2
    /\ calls[1].ok /\ calls[1].cell = 1 /\ calls[1].result.seen = <<1000000>>
    /\ calls[1].result.label = << <<"lr", 100000>> >>
    /\ calls[2].ok /\ calls[2].cell = 2 /\ calls[2].result.seen = <<1000012>>
    /\ calls[2].result.label = << <<"lr", 100001>> >>

\* the iterations of Experiment.run begun for the k-th cell, in order
IterationsOfCell(k) == SelectSeq(calls, LAMBDA c : c.cell = k)

\* the keyword arguments the model params of a configuration hold
ModelParams(h, cfg) ==
    [k \in DOMAIN h[StageParams(h, cfg, "model")] |-> h[StageParams(h, cfg, "model")][k].v]

\* C15: when run(repeat) with repeat >= 1 has returned on a new Experiment, no
\* pipeline having raised, exactly repeat iterations were made; each constructed
\* a model from the configuration's model params, then a manager, bound that
\* model to that manager before the pipeline ran, and appended the result that
\* manager's pipeline returned, so the result set holds the repeat results in
\* execution order; no model or manager instance serves two iterations (the
\* instances of all iterations, in construction order, are pairwise different).
C15_RunMakesRepeatIterations ==
    /\ pc = "collect" /\ run_repeat >= 1 =>
          LET mine == IterationsOfCell(cell_index)
          IN  /\ Len(mine) = run_repeat
              /\ Len(experiment.results) = run_repeat
              /\ \A i \in 1..Len(mine) :
                    /\ mine[i].ok /\ mine[i].run = i
                    /\ mine[i].model.args = ModelParams(heap, configs[experiment.config])
                    /\ mine[i].model.id < mine[i].manager.id
                    /\ mine[i].manager.model = mine[i].model.id
                    /\ experiment.results[i] = mine[i].result
                    /\ experiment.results[i].by = mine[i].manager.id
                    /\ i > 1 => mine[i - 1].manager.id < mine[i].model.id
    /\ \A a \in 1..Len(calls) :
          /\ calls[a].model.id < calls[a].manager.id
          /\ a > 1 => calls[a - 1].manager.id < calls[a].model.id

\* run(2) or more has returned on the Experiment of the second cell
C15_Witness ==
    /\ pc = "collect"
    /\ cell_index = 2
    /\ run_repeat >= 2
    /\ Len(experiment.results) = run_repeat
    /\ experiment.results[1].by # experiment.results[2].by

\* C16: run_experiments works lazily and one configuration at a time: as many
\* configurations have been built as cells taken (one fewer when the building
\* of the last cell taken raised); the configuration of a cell
\* is built only when the aggregate of every cell before it has been inserted,
\* all runs of those cells made; and the iterations go cell by cell, run by run:
\* none of a later cell comes before one of an earlier cell.
C16_LazyOneAtATime ==
    /\ Len(configs) = IF pc = "error" /\ error.kind = "ValueError"
                      THEN cell_index - 1 ELSE cell_index
    /\ pc \in {"run", "collect"} => Len(results) = Len(configs) - 1
    /\ pc \in {"iter", "done"} => Len(results) = Len(configs)
    /\ pc = "error" => Len(configs) - Len(results) \in {0, 1}
    /\ runs < 1 => calls = <<>>
    /\ runs >= 1 =>
          /\ Len(calls) >= runs * (Len(configs) - 1)
          /\ \A a \in 1..Len(calls) :
                /\ calls[a].cell = ((a - 1) \div runs) + 1
                /\ calls[a].run = ((a - 1) % runs) + 1
                /\ calls[a].cell <= Len(configs)

\* the second cell is being run: its configuration is built, the first cell's
\* two runs are made and its aggregate is inserted, the third is not yet built
C16_Witness ==
    /\ Len(grid) >= 3
    /\ runs = 2
    /\ pc = "run"
    /\ Len(configs) = 2
    /\ Len(results) = 1
    /\ results[1].value.count = 2
    /\ Len(calls) = 3
\* C17: get_run_results returns a copy: whatever the client does to the set it
\* got (adding a result, calling combine()), the Experiment's own set holds
\* exactly the results run() appended, in order, and that is what a later
\* get_run_results returns.
C17_ReturnedSetIsACopy ==
    /\ experiment.results = ResultsOfCell(cell_index)
    /\ GetRunResults(experiment, held.id + 1).items = ResultsOfCell(cell_index)

\* the client added a result to the set it got and combined it, and the
\* Experiment has been run again since
C17_Witness ==
    /\ pc = "client"
    /\ held.id > 0
    /\ held.combines > 0
    /\ \E i \in 1..Len(held.items) : held.items[i] = ForeignResult(config_space)
    /\ Len(requested) = 2
    /\ Len(experiment.results) >= Len(held.items)
\* the sum of a sequence of numbers
RECURSIVE SumOf(_)
SumOf(q) == IF q = <<>> THEN 0 ELSE Head(q) + SumOf(Tail(q))

\* C19: the result set of an Experiment only grows and is never reset: after
\* the runs run(r1), ..., run(rn) on one Experiment have returned,
\* get_run_results returns exactly r1 + ... + rn results, the results of
\* all of these runs in the order they were made; while run(rn) is under way
\* the set holds the results of the runs before it and of its iterations so far.
C19_ResultsAccumulate ==
    /\ pc = "client" =>
          /\ Len(GetRunResults(experiment, held.id + 1).items) = SumOf(requested)
          /\ \A i \in 1..Len(experiment.results) :
                experiment.results[i] = calls[i].result
    /\ pc = "run" =>
          Len(experiment.results)
              = SumOf(SubSeq(requested, 1, Len(requested) - 1)) + run_i

\* run(1) and then run(2) have returned on the same Experiment, which holds
\* three results
C19_Witness ==
    /\ pc = "client"
    /\ requested = <<1, 2>>
    /\ Len(experiment.results) = 3
    /\ Len(calls) = 3
\* C18: each of the five getters of ExperimentConfig returns a shallow copy:
\* whatever top-level key the client adds to, removes from or rebinds in a
\* dictionary a getter returned, the configuration's own dictionaries (every
\* stage's params) are as they were when the configuration was made.
C18_GettersReturnCopies ==
    caller = "client" =>
        Deref(heap, configs[experiment.config].config)
            = Deref(FirstConfiguration(config_space, grid).heap,
                    configs[experiment.config].config)
====
